---- MODULE Spec2Model ----
(***************************************************************************)
(* Model of train-erc-text-full.py: the __main__ block that assembles the  *)
(* arguments (argparse, then the YAML file on top) and main(), the single  *)
(* procedure that loads hp.json, builds the TrainingArguments, the three   *)
(* datasets, the tokenizer, the model and the Trainer, trains, evaluates   *)
(* and optionally predicts, and writes the two results files.              *)
(*                                                                         *)
(* Python values: a str is a sequence of one-character strings, an int is  *)
(* an integer, a float setting is an integer count of hundredths.  A value *)
(* that may be None is wrapped: <<>> is None and <<v>> is v.  A dict entry *)
(* is wrapped the same way: <<>> is "key not in the dict", <<v>> is the    *)
(* value v stored under the key.  A local not yet assigned is <<>>.        *)
(***************************************************************************)
EXTENDS Integers, Sequences, FiniteSets

\* ------------------------------------------------------------------ bounds
MaxChunks == 2      \* an OUTPUT_DIR is made of at most this many chunks
MaxBatch == 2       \* BATCH_SIZE ranges over 1..MaxBatch
MaxEpochs == 2      \* NUM_TRAIN_EPOCHS ranges over 1..MaxEpochs
MaxTestLen == 1     \* len(ds_test) ranges over 0..MaxTestLen
MaxLR == 2          \* hp.json's learning_rate ranges over 1..MaxLR

\* --------------------------------------------------------- optional values
None == <<>>
Some(v) == <<v>>
Absent == <<>>
Given(v) == <<v>>
Unset == <<>>

\* ----------------------------------------------------------------- strings
seed42 == <<"-", "s", "e", "e", "d", "-", "4", "2">>
seedPrefix == <<"-", "s", "e", "e", "d", "-">>
robertaPrefix == <<"r", "o", "b", "e", "r", "t", "a", "-">>
hpName == <<"h", "p", ".", "j", "s", "o", "n">>
valName == <<"v", "a", "l", "-", "r", "e", "s", "u", "l", "t", "s", ".", "j", "s", "o", "n">>
testName == <<"t", "e", "s", "t", "-", "r", "e", "s", "u", "l", "t", "s", ".", "j", "s", "o", "n">>
Digits == <<"0", "1", "2", "3", "4", "5", "6", "7", "8", "9">>

\* str(n) for an int n, as Python's f-string formats it.
RECURSIVE NatStr(_)
NatStr(n) ==
    IF n < 10 THEN <<Digits[n + 1]>>
    ELSE NatStr(n \div 10) \o <<Digits[(n % 10) + 1]>>

IntStr(n) == IF n < 0 THEN <<"-">> \o NatStr(0 - n) ELSE NatStr(n)

\* f"{SEED}" for SEED an int or None.
FormatSeed(seed) ==
    IF seed = None THEN <<"N", "o", "n", "e">> ELSE IntStr(seed[1])

StartsWithAt(s, i, old) ==
    /\ i + Len(old) - 1 <= Len(s)
    /\ SubSeq(s, i, i + Len(old) - 1) = old

\* s[i-1:].replace(old, new) for a non-empty old: the left-to-right scan for
\* non-overlapping occurrences.
RECURSIVE ReplaceFrom(_, _, _, _)
ReplaceFrom(s, i, old, new) ==
    IF i > Len(s) THEN <<>>
    ELSE IF StartsWithAt(s, i, old)
         THEN new \o ReplaceFrom(s, i + Len(old), old, new)
         ELSE <<s[i]>> \o ReplaceFrom(s, i + 1, old, new)

Replace(s, old, new) == ReplaceFrom(s, 1, old, new)

\* OUTPUT_DIR.replace("-seed-42", f"-seed-{SEED}")
SeedDir(dir, seed) == Replace(dir, seed42, seedPrefix \o FormatSeed(seed))

\* os.path.join(a, b) for a relative b
PathJoin(a, b) ==
    IF Len(a) = 0 \/ a[Len(a)] = "/" THEN a \o b ELSE a \o <<"/">> \o b

\* "-seed-42" in s
Contains(s, old) == \E i \in 1..Len(s) : StartsWithAt(s, i, old)

\* ------------------------------------------------------------------ inputs
Chunks == {<<"r">>, <<"-", "s", "e", "e", "d", "-", "4">>, <<"2">>, seed42}

RECURSIVE PathsUpTo(_)
PathsUpTo(n) ==
    IF n = 0 THEN {<<>>}
    ELSE LET shorter == PathsUpTo(n - 1)
         IN  shorter \cup {p \o c : p \in shorter, c \in Chunks}

Paths == PathsUpTo(MaxChunks)
SeedValues == {-1, 7, 42, 420}
YamlDirs == {<<"y">> \o seed42}
YamlSeeds == {42, 365}
WeightDecays == {1, 10}     \* hundredths: 0.01, 0.1
WarmupRatios == {20}        \* hundredths: 0.2
meld == <<"M", "E", "L", "D">>
title == <<"t", "i", "t", "l", "e">>
base == <<"b", "a", "s", "e">>
large == <<"l", "a", "r", "g", "e">>
Checkpoints == {<<"c", "k", "p", "t">>}
YamlRates == {9}            \* a learning_rate key in the YAML file

\* What argparse can return: each option given or left at its default None.
CommandLines ==
    [OUTPUT_DIR : {None} \cup {Some(p) : p \in Paths},
     SEED : {None} \cup {Some(s) : s \in SeedValues}]

\* The parameters of main() and one more key a YAML file may hold.
ParamKeys ==
    {"OUTPUT_DIR", "SEED", "DATASET", "BATCH_SIZE", "model_checkpoint", "roberta",
     "speaker_mode", "num_past_utterances", "num_future_utterances",
     "NUM_TRAIN_EPOCHS", "WEIGHT_DECAY", "WARMUP_RATIO"}
ExtraKeys == {"learning_rate"}
Keys == ParamKeys \cup ExtraKeys

\* The command lines tried against a YAML file that sets the same keys.
OverrideDirs == {<<"r">>, <<"r">> \o seed42}
OverrideCommandLines ==
    [OUTPUT_DIR : {None} \cup {Some(p) : p \in OverrideDirs},
     SEED : {None} \cup {Some(s) : s \in SeedValues}]

\* YAML files that differ in the two keys the command line also sets.
DirYamls ==
    [OUTPUT_DIR : {Absent} \cup {Given(Some(p)) : p \in YamlDirs},
     SEED : {Absent} \cup {Given(Some(s)) : s \in YamlSeeds},
     DATASET : {Given(meld)},
     BATCH_SIZE : {Given(1)},
     model_checkpoint : {Given(None)},
     roberta : {Given(base)},
     speaker_mode : {Given(title)},
     num_past_utterances : {Given(3)},
     num_future_utterances : {Given(0)},
     NUM_TRAIN_EPOCHS : {Given(1)},
     WEIGHT_DECAY : {Given(1)},
     WARMUP_RATIO : {Given(20)},
     learning_rate : {Absent}]

\* YAML files that differ in the static settings.
SettingYamls ==
    [OUTPUT_DIR : {Absent},
     SEED : {Absent},
     DATASET : {Absent, Given(meld)},
     BATCH_SIZE : {Given(b) : b \in 1..MaxBatch},
     model_checkpoint : {Given(None)} \cup {Given(Some(c)) : c \in Checkpoints},
     roberta : {Given(base), Given(large)},
     speaker_mode : {Given(title)},
     num_past_utterances : {Given(3)},
     num_future_utterances : {Given(0)},
     NUM_TRAIN_EPOCHS : {Given(e) : e \in 1..MaxEpochs},
     WEIGHT_DECAY : {Given(w) : w \in WeightDecays},
     WARMUP_RATIO : {Given(w) : w \in WarmupRatios},
     learning_rate : {Absent} \cup {Given(r) : r \in YamlRates}]

SettingCommandLines ==
    [OUTPUT_DIR : {Some(<<"r">> \o seed42)}, SEED : {Some(7)}]

\* The runs explored: every command line with a YAML file that leaves
\* OUTPUT_DIR and SEED to it, some command lines with the YAML files that set
\* them, and one command line with the YAML files that vary the settings.
Runs ==
    (CommandLines \X {y \in DirYamls : y.OUTPUT_DIR = Absent /\ y.SEED = Absent})
    \cup (OverrideCommandLines \X DirYamls)
    \cup (SettingCommandLines \X SettingYamls)

\* hp.json: not JSON at all, a JSON document that is no object, an object
\* without the key, an object with it.
\* A file's content as json.load sees it: whether it parses, whether the
\* document is an object, and the object's entries under the two keys used.
File(valid, isDict, lr, metrics) ==
    [valid |-> valid, isDict |-> isDict, learning_rate |-> lr, metrics |-> metrics]

HpFiles ==
    {File(FALSE, FALSE, Absent, Absent),
     File(TRUE, FALSE, Absent, Absent),
     File(TRUE, TRUE, Absent, Absent)}
    \cup {File(TRUE, TRUE, Given(r), Absent) : r \in 1..MaxLR}

\* The directories a run names: on the command line, in the YAML file.
NamedDirs(cl, y) ==
    (IF cl.OUTPUT_DIR = None THEN {} ELSE {cl.OUTPUT_DIR[1]})
    \cup (IF y.OUTPUT_DIR = Absent \/ y.OUTPUT_DIR[1] = None THEN {}
          ELSE {y.OUTPUT_DIR[1][1]})

\* ------------------------------------------------------------------- state
VARIABLES
    pc,             \* the statement about to run, "done" or "aborted"
    argv,           \* what parse_args() returns for this command line
    yamlFile,       \* the content of ./train-erc-text.yaml
    disk0,          \* the files on disk when the script starts
    disk,           \* the files on disk: path -> content
    opened,         \* every open() so far: <<path, mode>>
    calls,          \* the calls out of the script so far, in order
    args,           \* __main__'s dict args
    args_,          \* __main__'s dict args_
    params,         \* main()'s parameters, rebound as main() assigns to them
    kwargs,         \* main()'s **kwargs
    NUM_CLASSES,
    hp_best,
    LEARNING_RATE,
    training_args,  \* main()'s local args, the TrainingArguments
    ds_train,
    ds_val,
    ds_test,
    tokenizer,
    model,
    trainer,
    val_results,
    test_results

env == <<argv, yamlFile, disk0>>
mainDict == <<args, args_>>
loaded == <<NUM_CLASSES, hp_best, LEARNING_RATE>>
built == <<training_args, ds_train, ds_val, ds_test, tokenizer, model, trainer>>
results == <<val_results, test_results>>
vars == <<pc, env, disk, opened, calls, mainDict, params, kwargs, loaded, built, results>>

NoArgs == [k \in Keys |-> Absent]

Init ==
    /\ pc = "parse_args"
    /\ \E run \in Runs :
         /\ argv = run[1]
         /\ yamlFile = run[2]
         /\ \E present \in BOOLEAN, hp \in HpFiles :
              disk0 = [p \in {PathJoin(d, hpName) :
                                d \in IF present THEN NamedDirs(run[1], run[2]) ELSE {}}
                         |-> hp]
    /\ disk = disk0
    /\ opened = <<>>
    /\ calls = <<>>
    /\ args = NoArgs
    /\ args_ = Unset
    /\ params = Unset
    /\ kwargs = Unset
    /\ NUM_CLASSES = Unset
    /\ hp_best = Unset
    /\ LEARNING_RATE = Unset
    /\ training_args = Unset
    /\ ds_train = Unset
    /\ ds_val = Unset
    /\ ds_test = Unset
    /\ tokenizer = Unset
    /\ model = Unset
    /\ trainer = Unset
    /\ val_results = Unset
    /\ test_results = Unset

\* ---------------------------------------------------------------- __main__
yamlPath ==
    <<".", "/", "t", "r", "a", "i", "n", "-", "e", "r", "c", "-", "t", "e", "x", "t",
      ".", "y", "a", "m", "l">>

Call(op, on) == [op |-> op, on |-> on]

\* args = vars(parser.parse_args()): both options are keys, None when not given.
ParsedArgs(cl) ==
    [NoArgs EXCEPT !.OUTPUT_DIR = Given(cl.OUTPUT_DIR), !.SEED = Given(cl.SEED)]

ParseArgs ==
    /\ pc = "parse_args"
    /\ args' = ParsedArgs(argv)
    /\ pc' = "yaml_load"
    /\ UNCHANGED <<env, disk, opened, calls, args_, params, kwargs, loaded, built, results>>

LoadYaml ==
    /\ pc = "yaml_load"
    /\ opened' = Append(opened, <<yamlPath, "r">>)
    /\ calls' = Append(calls, Call("open_r", "train-erc-text.yaml"))
    /\ args_' = <<yamlFile>>
    /\ pc' = "merge"
    /\ UNCHANGED <<env, disk, args, params, kwargs, loaded, built, results>>

\* Mutant: a value given on the command line wins over the YAML file's.
MergedArgsCliFirst(a, y) ==
    [k \in Keys |-> IF a[k] # Absent /\ a[k][1] # None THEN a[k] ELSE y[k]]

\* for key, val in args_.items(): args[key] = val
MergedArgs(a, y) == [k \in Keys |-> IF y[k] # Absent THEN y[k] ELSE a[k]]

MergeArgs ==
    /\ pc = "merge"
    /\ args' = MergedArgs(args, args_[1])
    /\ pc' = "call_main"
    /\ UNCHANGED <<env, disk, opened, calls, args_, params, kwargs, loaded, built, results>>

\* main(**args): a parameter without a key is a TypeError, a key without a
\* parameter goes to **kwargs.
BoundParams(a) == [k \in ParamKeys |-> a[k][1]]
BoundKwargs(a) == [k \in ExtraKeys |-> a[k]]

CallMain ==
    /\ pc = "call_main"
    /\ IF \E k \in ParamKeys : args[k] = Absent
       THEN /\ pc' = "aborted"
            /\ UNCHANGED <<params, kwargs>>
       ELSE /\ params' = <<BoundParams(args)>>
            /\ kwargs' = <<BoundKwargs(args)>>
            /\ pc' = "get_num_classes"
    /\ UNCHANGED <<env, disk, opened, calls, mainDict, loaded, built, results>>

\* -------------------------------------------------------------------- main
GetNumClasses ==
    /\ pc = "get_num_classes"
    /\ calls' = Append(calls, Call("get_num_classes", ""))
    /\ NUM_CLASSES' = <<[classes_of |-> params[1].DATASET]>>
    /\ pc' = "open_hp"
    /\ UNCHANGED <<env, disk, opened, mainDict, params, kwargs, hp_best, LEARNING_RATE,
                   built, results>>

\* os.path.join(OUTPUT_DIR, "hp.json")
HpPath(dir) == PathJoin(dir, hpName)

\* Mutant: hp.json is looked for after the seed substitution of line 47.
LoadHpAfterReplace ==
    /\ pc = "open_hp"
    /\ IF params[1].OUTPUT_DIR = None
       THEN /\ pc' = "aborted"
            /\ UNCHANGED <<opened, calls, hp_best>>
       ELSE LET path == HpPath(SeedDir(params[1].OUTPUT_DIR[1], params[1].SEED))
            IN  /\ opened' = Append(opened, <<path, "r">>)
                /\ calls' = Append(calls, Call("open_r", "hp.json"))
                /\ IF path \in DOMAIN disk /\ disk[path].valid
                   THEN /\ hp_best' = <<disk[path]>>
                        /\ pc' = "read_lr"
                   ELSE /\ pc' = "aborted"
                        /\ UNCHANGED hp_best
    /\ UNCHANGED <<env, disk, mainDict, params, kwargs, NUM_CLASSES, LEARNING_RATE,
                   built, results>>

\* with open(..., "r") as stream: hp_best = json.load(stream)
LoadHp ==
    /\ pc = "open_hp"
    /\ IF params[1].OUTPUT_DIR = None
       THEN /\ pc' = "aborted"
            /\ UNCHANGED <<opened, calls, hp_best>>
       ELSE LET path == HpPath(params[1].OUTPUT_DIR[1])
            IN  /\ opened' = Append(opened, <<path, "r">>)
                /\ calls' = Append(calls, Call("open_r", "hp.json"))
                /\ IF path \in DOMAIN disk /\ disk[path].valid
                   THEN /\ hp_best' = <<disk[path]>>
                        /\ pc' = "read_lr"
                   ELSE /\ pc' = "aborted"
                        /\ UNCHANGED hp_best
    /\ UNCHANGED <<env, disk, mainDict, params, kwargs, NUM_CLASSES, LEARNING_RATE,
                   built, results>>

\* Mutant: a learning_rate key of the YAML file replaces the one of hp.json.
ReadLearningRateFromKwargs ==
    /\ pc = "read_lr"
    /\ IF hp_best[1].isDict /\ hp_best[1].learning_rate # Absent
       THEN /\ LEARNING_RATE' = IF kwargs[1].learning_rate # Absent
                                 THEN <<kwargs[1].learning_rate[1]>>
                                 ELSE <<hp_best[1].learning_rate[1]>>
            /\ pc' = "replace_seed"
       ELSE /\ pc' = "aborted"
            /\ UNCHANGED LEARNING_RATE
    /\ UNCHANGED <<env, disk, opened, calls, mainDict, params, kwargs, NUM_CLASSES, hp_best,
                   built, results>>

\* Mutant: hp_best.get("learning_rate", 0), a default instead of a KeyError.
ReadLearningRateDefault ==
    /\ pc = "read_lr"
    /\ IF hp_best[1].isDict
       THEN /\ LEARNING_RATE' = IF hp_best[1].learning_rate # Absent
                                 THEN <<hp_best[1].learning_rate[1]>>
                                 ELSE <<0>>
            /\ pc' = "replace_seed"
       ELSE /\ pc' = "aborted"
            /\ UNCHANGED LEARNING_RATE
    /\ UNCHANGED <<env, disk, opened, calls, mainDict, params, kwargs, NUM_CLASSES, hp_best,
                   built, results>>

\* LEARNING_RATE = hp_best["learning_rate"]
ReadLearningRate ==
    /\ pc = "read_lr"
    /\ IF hp_best[1].isDict /\ hp_best[1].learning_rate # Absent
       THEN /\ LEARNING_RATE' = <<hp_best[1].learning_rate[1]>>
            /\ pc' = "replace_seed"
       ELSE /\ pc' = "aborted"
            /\ UNCHANGED LEARNING_RATE
    /\ UNCHANGED <<env, disk, opened, calls, mainDict, params, kwargs, NUM_CLASSES, hp_best,
                   built, results>>

ReplaceSeed ==
    /\ pc = "replace_seed"
    /\ params' = <<[params[1] EXCEPT
                      !.OUTPUT_DIR = Some(SeedDir(params[1].OUTPUT_DIR[1], params[1].SEED))]>>
    /\ pc' = "resolve_checkpoint"
    /\ UNCHANGED <<env, disk, opened, calls, mainDict, kwargs, loaded, built, results>>

\* Mutant: the configured checkpoint is ignored.
ResolvedCheckpointAlwaysRoberta(mc, rob) == Some(robertaPrefix \o rob)

\* if model_checkpoint is None: model_checkpoint = f"roberta-{roberta}"
ResolvedCheckpoint(mc, rob) == IF mc = None THEN Some(robertaPrefix \o rob) ELSE mc

ResolveCheckpoint ==
    /\ pc = "resolve_checkpoint"
    /\ params' = <<[params[1] EXCEPT
                      !.model_checkpoint =
                          ResolvedCheckpoint(params[1].model_checkpoint, params[1].roberta)]>>
    /\ pc' = "training_args"
    /\ UNCHANGED <<env, disk, opened, calls, mainDict, kwargs, loaded, built, results>>

rootDir ==
    <<".", "/", "m", "u", "l", "t", "i", "m", "o", "d", "a", "l", "-", "d", "a", "t", "a",
      "s", "e", "t", "s", "/">>

\* Mutant: the evaluation batch size is not doubled.
EvalBatchSizeSame(batch) == batch

\* PER_DEVICE_EVAL_BATCH_SIZE = BATCH_SIZE * 2
EvalBatchSize(batch) == batch * 2

\* TrainingArguments(...), with cuda what torch.cuda.is_available() returns
TrainingArguments(p, lr, cuda) ==
    [output_dir |-> p.OUTPUT_DIR[1],
     evaluation_strategy |-> "epoch",
     logging_strategy |-> "epoch",
     save_strategy |-> "epoch",
     per_device_train_batch_size |-> p.BATCH_SIZE,
     per_device_eval_batch_size |-> EvalBatchSize(p.BATCH_SIZE),
     load_best_model_at_end |-> TRUE,
     seed |-> p.SEED,
     fp16 |-> cuda,
     learning_rate |-> lr,
     num_train_epochs |-> p.NUM_TRAIN_EPOCHS,
     weight_decay |-> p.WEIGHT_DECAY,
     warmup_ratio |-> p.WARMUP_RATIO,
     metric_for_best_model |-> "eval_f1_weighted",
     greater_is_better |-> TRUE]

BuildTrainingArguments ==
    /\ pc = "training_args"
    /\ \E cuda \in BOOLEAN :
         training_args' = <<TrainingArguments(params[1], LEARNING_RATE[1], cuda)>>
    /\ calls' = Append(calls, Call("TrainingArguments", ""))
    /\ pc' = "ds_train"
    /\ UNCHANGED <<env, disk, opened, mainDict, params, kwargs, loaded,
                   ds_train, ds_val, ds_test, tokenizer, model, trainer, results>>

\* ErcTextDataset(...): the object utils builds, and the len() it reports
ErcTextDataset(p, split, n) ==
    [DATASET |-> p.DATASET,
     SPLIT |-> split,
     speaker_mode |-> p.speaker_mode,
     num_past_utterances |-> p.num_past_utterances,
     num_future_utterances |-> p.num_future_utterances,
     model_checkpoint |-> p.model_checkpoint[1],
     ROOT_DIR |-> rootDir,
     SEED |-> p.SEED,
     len |-> n]

\* The train and val splits are taken non-empty: the script never asks their
\* length.  The test split may be empty.
SplitLens(split) == IF split = "test" THEN 0..MaxTestLen ELSE {MaxTestLen}

BuildTrain ==
    /\ pc = "ds_train"
    /\ \E n \in SplitLens("train") : ds_train' = <<ErcTextDataset(params[1], "train", n)>>
    /\ calls' = Append(calls, Call("ErcTextDataset", "train"))
    /\ pc' = "ds_val"
    /\ UNCHANGED <<env, disk, opened, mainDict, params, kwargs, loaded,
                   training_args, ds_val, ds_test, tokenizer, model, trainer, results>>

BuildVal ==
    /\ pc = "ds_val"
    /\ \E n \in SplitLens("val") : ds_val' = <<ErcTextDataset(params[1], "val", n)>>
    /\ calls' = Append(calls, Call("ErcTextDataset", "val"))
    /\ pc' = "ds_test"
    /\ UNCHANGED <<env, disk, opened, mainDict, params, kwargs, loaded,
                   training_args, ds_train, ds_test, tokenizer, model, trainer, results>>

BuildTest ==
    /\ pc = "ds_test"
    /\ \E n \in SplitLens("test") : ds_test' = <<ErcTextDataset(params[1], "test", n)>>
    /\ calls' = Append(calls, Call("ErcTextDataset", "test"))
    /\ pc' = "tokenizer"
    /\ UNCHANGED <<env, disk, opened, mainDict, params, kwargs, loaded,
                   training_args, ds_train, ds_val, tokenizer, model, trainer, results>>

LoadTokenizer ==
    /\ pc = "tokenizer"
    /\ tokenizer' = <<[from_pretrained |-> params[1].model_checkpoint[1], use_fast |-> TRUE]>>
    /\ calls' = Append(calls, Call("AutoTokenizer", ""))
    /\ pc' = "model"
    /\ UNCHANGED <<env, disk, opened, mainDict, params, kwargs, loaded,
                   training_args, ds_train, ds_val, ds_test, model, trainer, results>>

LoadModel ==
    /\ pc = "model"
    /\ model' = <<[from_pretrained |-> params[1].model_checkpoint[1],
                   num_labels |-> NUM_CLASSES[1]]>>
    /\ calls' = Append(calls, Call("AutoModel", ""))
    /\ pc' = "trainer"
    /\ UNCHANGED <<env, disk, opened, mainDict, params, kwargs, loaded,
                   training_args, ds_train, ds_val, ds_test, tokenizer, trainer, results>>

\* Trainer(model=..., args=..., train_dataset=..., eval_dataset=..., ...)
Trainer(m, a, train, val, tok) ==
    [model |-> m,
     args |-> a,
     train_dataset |-> train,
     eval_dataset |-> val,
     tokenizer |-> tok,
     compute_metrics |-> "compute_metrics"]

\* Mutant: the trainer is given the test split as its evaluation data.
BuildTrainerEvalOnTest ==
    /\ pc = "trainer"
    /\ trainer' = <<Trainer(model[1], training_args[1], ds_train[1], ds_test[1], tokenizer[1])>>
    /\ calls' = Append(calls, Call("Trainer", ""))
    /\ pc' = "train"
    /\ UNCHANGED <<env, disk, opened, mainDict, params, kwargs, loaded,
                   training_args, ds_train, ds_val, ds_test, tokenizer, model, results>>

BuildTrainer ==
    /\ pc = "trainer"
    /\ trainer' = <<Trainer(model[1], training_args[1], ds_train[1], ds_val[1], tokenizer[1])>>
    /\ calls' = Append(calls, Call("Trainer", ""))
    /\ pc' = "train"
    /\ UNCHANGED <<env, disk, opened, mainDict, params, kwargs, loaded,
                   training_args, ds_train, ds_val, ds_test, tokenizer, model, results>>

\* trainer.train(): the framework trains on the trainer's train_dataset
Train ==
    /\ pc = "train"
    /\ calls' = Append(calls, Call("train", trainer[1].train_dataset.SPLIT))
    /\ pc' = "evaluate"
    /\ UNCHANGED <<env, disk, opened, mainDict, params, kwargs, loaded, built, results>>

\* Mutant: trainer.evaluate() is called in place of trainer.train().
EvaluateUntrained ==
    /\ pc = "train"
    /\ calls' = Append(calls, Call("evaluate", trainer[1].eval_dataset.SPLIT))
    /\ val_results' = <<[metrics_on |-> trainer[1].eval_dataset.SPLIT]>>
    /\ pc' = "open_val"
    /\ UNCHANGED <<env, disk, opened, mainDict, params, kwargs, loaded, built, test_results>>

\* val_results = trainer.evaluate(): metrics on the trainer's eval_dataset
Evaluate ==
    /\ pc = "evaluate"
    /\ calls' = Append(calls, Call("evaluate", trainer[1].eval_dataset.SPLIT))
    /\ val_results' = <<[metrics_on |-> trainer[1].eval_dataset.SPLIT]>>
    /\ pc' = "open_val"
    /\ UNCHANGED <<env, disk, opened, mainDict, params, kwargs, loaded, built, test_results>>

\* Mutant: the validation results are written under hp.json's name.
ValPathOverHp(dir) == PathJoin(dir, hpName)

\* os.path.join(OUTPUT_DIR, "val-results.json"), ... "test-results.json")
ValPath(dir) == PathJoin(dir, valName)
TestPath(dir) == PathJoin(dir, testName)

\* open(path, "w") creates the file or truncates it; json.dump then fills it.
Truncated == File(FALSE, FALSE, Absent, Absent)
Dumped(metrics) == File(TRUE, TRUE, Absent, Given(metrics.metrics_on))

WriteTo(path, content) ==
    [q \in DOMAIN disk \cup {path} |-> IF q = path THEN content ELSE disk[q]]

OpenVal ==
    /\ pc = "open_val"
    /\ LET path == ValPath(params[1].OUTPUT_DIR[1])
       IN  /\ opened' = Append(opened, <<path, "w">>)
           /\ disk' = WriteTo(path, Truncated)
    /\ calls' = Append(calls, Call("open_w", "val-results.json"))
    /\ pc' = "dump_val"
    /\ UNCHANGED <<env, mainDict, params, kwargs, loaded, built, results>>

DumpVal ==
    /\ pc = "dump_val"
    /\ disk' = WriteTo(ValPath(params[1].OUTPUT_DIR[1]), Dumped(val_results[1]))
    /\ calls' = Append(calls, Call("json.dump", "val-results.json"))
    /\ pc' = "test_len"
    /\ UNCHANGED <<env, opened, mainDict, params, kwargs, loaded, built, results>>

\* Mutant: the test set is predicted whatever its length.
TestWantedAlways(d) == d.len >= 0

\* if len(ds_test) != 0:
TestWanted(d) == d.len # 0

TestBranch ==
    /\ pc = "test_len"
    /\ pc' = IF TestWanted(ds_test[1]) THEN "predict" ELSE "done"
    /\ UNCHANGED <<env, disk, opened, calls, mainDict, params, kwargs, loaded, built, results>>

\* test_results = trainer.predict(ds_test)
Predict ==
    /\ pc = "predict"
    /\ calls' = Append(calls, Call("predict", ds_test[1].SPLIT))
    /\ test_results' = <<[metrics_on |-> ds_test[1].SPLIT]>>
    /\ pc' = "open_test"
    /\ UNCHANGED <<env, disk, opened, mainDict, params, kwargs, loaded, built, val_results>>

OpenTest ==
    /\ pc = "open_test"
    /\ LET path == TestPath(params[1].OUTPUT_DIR[1])
       IN  /\ opened' = Append(opened, <<path, "w">>)
           /\ disk' = WriteTo(path, Truncated)
    /\ calls' = Append(calls, Call("open_w", "test-results.json"))
    /\ pc' = "dump_test"
    /\ UNCHANGED <<env, mainDict, params, kwargs, loaded, built, results>>

DumpTest ==
    /\ pc = "dump_test"
    /\ disk' = WriteTo(TestPath(params[1].OUTPUT_DIR[1]), Dumped(test_results[1]))
    /\ calls' = Append(calls, Call("json.dump", "test-results.json"))
    /\ pc' = "done"
    /\ UNCHANGED <<env, opened, mainDict, params, kwargs, loaded, built, results>>

\* The statements that call into argparse, yaml, utils, the framework or the
\* file system and so may raise; hp.json's own failures are LoadHp's and
\* ReadLearningRate's.  Nothing in the script catches an exception.
Fallible ==
    {"parse_args", "yaml_load", "get_num_classes", "training_args", "ds_train", "ds_val",
     "ds_test", "tokenizer", "model", "trainer", "train", "evaluate", "open_val",
     "dump_val", "predict", "open_test", "dump_test"}

Raise ==
    /\ pc \in Fallible
    /\ pc' = "aborted"
    /\ UNCHANGED <<env, disk, opened, calls, mainDict, params, kwargs, loaded, built, results>>

Next ==
    \/ ParseArgs
    \/ LoadYaml
    \/ MergeArgs
    \/ CallMain
    \/ GetNumClasses
    \/ LoadHp
    \/ ReadLearningRate
    \/ ReplaceSeed
    \/ ResolveCheckpoint
    \/ BuildTrainingArguments
    \/ BuildTrain
    \/ BuildVal
    \/ BuildTest
    \/ LoadTokenizer
    \/ LoadModel
    \/ BuildTrainer
    \/ Train
    \/ Evaluate
    \/ OpenVal
    \/ DumpVal
    \/ TestBranch
    \/ Predict
    \/ OpenTest
    \/ DumpTest
    \/ Raise

Spec == Init /\ [][Next]_vars

\* ------------------------------------------------------------------ claims
IsPrefix(s, t) == Len(s) <= Len(t) /\ SubSeq(t, 1, Len(s)) = s
Count(op, on) == Cardinality({i \in 1..Len(calls) : calls[i] = Call(op, on)})
Called(op, on) == \E i \in 1..Len(calls) : calls[i] = Call(op, on)
Opens(path, mode) == Cardinality({i \in 1..Len(opened) : opened[i] = <<path, mode>>})

\* The directory main() was given, and the directory after line 47.
GivenDir == args.OUTPUT_DIR[1][1]
GivenSeed == args.SEED[1]
InMain == params # Unset
HasDir == InMain /\ args.OUTPUT_DIR[1] # None

PhaseOrder ==
    <<Call("open_r", "train-erc-text.yaml"),
      Call("get_num_classes", ""),
      Call("open_r", "hp.json"),
      Call("TrainingArguments", ""),
      Call("ErcTextDataset", "train"),
      Call("ErcTextDataset", "val"),
      Call("ErcTextDataset", "test"),
      Call("AutoTokenizer", ""),
      Call("AutoModel", ""),
      Call("Trainer", ""),
      Call("train", "train"),
      Call("evaluate", "val"),
      Call("open_w", "val-results.json"),
      Call("json.dump", "val-results.json"),
      Call("predict", "test"),
      Call("open_w", "test-results.json"),
      Call("json.dump", "test-results.json")>>

C2_LearningRate ==
    training_args # Unset =>
        /\ HpPath(GivenDir) \in DOMAIN disk0
        /\ disk0[HpPath(GivenDir)].learning_rate # Absent
        /\ training_args[1].learning_rate = disk0[HpPath(GivenDir)].learning_rate[1]
        /\ LEARNING_RATE = <<training_args[1].learning_rate>>
        /\ Count("open_r", "hp.json") = 1
        /\ trainer # Unset => trainer[1].args.learning_rate = training_args[1].learning_rate

C2_Witness ==
    /\ pc = "done"
    /\ kwargs[1].learning_rate # Absent
    /\ kwargs[1].learning_rate # Given(training_args[1].learning_rate)

\* C3: a run that completes has written val-results.json exactly once, and
\* has called predict and written test-results.json exactly when the test
\* dataset is not empty; in no state is there a predict call or a
\* test-results.json for an empty test dataset.
C3_TestOptional ==
    /\ pc = "done" =>
           /\ Count("open_w", "val-results.json") = 1
           /\ Count("json.dump", "val-results.json") = 1
           /\ Opens(ValPath(params[1].OUTPUT_DIR[1]), "w") = 1
           /\ disk[ValPath(params[1].OUTPUT_DIR[1])].metrics = Given("val")
           /\ Called("predict", "test") <=> ds_test[1].len # 0
           /\ Called("json.dump", "test-results.json") <=> ds_test[1].len # 0
           /\ TestPath(params[1].OUTPUT_DIR[1]) \in DOMAIN disk <=> ds_test[1].len # 0
    /\ (ds_test # Unset /\ ds_test[1].len = 0) =>
           /\ ~Called("predict", "test")
           /\ ~Called("open_w", "test-results.json")
           /\ TestPath(params[1].OUTPUT_DIR[1]) \notin DOMAIN disk
           /\ test_results = Unset

C3_Witness ==
    /\ pc = "done"
    /\ ds_test[1].len = 0
    /\ ~Called("predict", "test")
    /\ TestPath(params[1].OUTPUT_DIR[1]) \notin DOMAIN disk

\* C4: the trainer's train_dataset is the train split and its eval_dataset
\* the val split; training runs on the train split and evaluation on the val
\* split only; the test split is no dataset of the trainer, and is used only
\* by a single predict call, made after train and evaluate.
C4_DatasetRoles ==
    /\ ds_train # Unset => ds_train[1].SPLIT = "train"
    /\ ds_val # Unset => ds_val[1].SPLIT = "val"
    /\ ds_test # Unset => ds_test[1].SPLIT = "test"
    /\ trainer # Unset =>
           /\ trainer[1].train_dataset = ds_train[1]
           /\ trainer[1].eval_dataset = ds_val[1]
           /\ trainer[1].train_dataset.SPLIT # "test"
           /\ trainer[1].eval_dataset.SPLIT # "test"
    /\ \A i \in 1..Len(calls) :
           /\ calls[i].op = "train" => calls[i].on = "train"
           /\ calls[i].op = "evaluate" => calls[i].on = "val"
           /\ calls[i].op = "predict" =>
                  /\ calls[i].on = "test"
                  /\ \E j \in 1..(i - 1) : calls[j].op = "train"
                  /\ \E j \in 1..(i - 1) : calls[j].op = "evaluate"
           /\ calls[i].on = "test" => calls[i].op \in {"ErcTextDataset", "predict"}
    /\ Cardinality({i \in 1..Len(calls) : calls[i].op = "predict"}) <= 1

C4_Witness ==
    /\ pc = "done"
    /\ Called("train", "train")
    /\ Called("evaluate", "val")
    /\ Called("predict", "test")

ResultPaths(dir) == {ValPath(dir), TestPath(dir)}

\* C5: every file that was on disk when the script started (the hp.json
\* files) is still there with the same content; hp.json is opened at most
\* once and only for reading; every open for writing is of val-results.json
\* or test-results.json in the output directory, and these are the only
\* files the run has added.
C5_HpReadOnly ==
    /\ \A p \in DOMAIN disk0 : p \in DOMAIN disk /\ disk[p] = disk0[p]
    /\ \A i \in 1..Len(opened) :
           /\ opened[i][2] = "w" =>
                  /\ opened[i][1] \in ResultPaths(params[1].OUTPUT_DIR[1])
                  /\ opened[i][1] \notin DOMAIN disk0
           /\ opened[i][1] \in DOMAIN disk0 => opened[i][2] = "r"
    /\ HasDir => Opens(HpPath(GivenDir), "r") <= 1 /\ Opens(HpPath(GivenDir), "w") = 0
    /\ (DOMAIN disk) \ (DOMAIN disk0) # {} =>
           (DOMAIN disk) \ (DOMAIN disk0) \subseteq ResultPaths(params[1].OUTPUT_DIR[1])

\* A completed run whose results went into the directory that holds hp.json.
C5_Witness ==
    /\ pc = "done"
    /\ params[1].OUTPUT_DIR[1] = GivenDir
    /\ HpPath(GivenDir) \in DOMAIN disk
    /\ TestPath(GivenDir) \in DOMAIN disk

\* C6: the TrainingArguments carry the settings main() was given: epochs,
\* weight decay, warmup ratio, seed and train batch size unchanged, and an
\* evaluation batch size of twice BATCH_SIZE; the trainer holds the same.
C6_StaticSettings ==
    training_args # Unset =>
        /\ training_args[1].num_train_epochs = args.NUM_TRAIN_EPOCHS[1]
        /\ training_args[1].weight_decay = args.WEIGHT_DECAY[1]
        /\ training_args[1].warmup_ratio = args.WARMUP_RATIO[1]
        /\ training_args[1].seed = args.SEED[1]
        /\ training_args[1].per_device_train_batch_size = args.BATCH_SIZE[1]
        /\ training_args[1].per_device_eval_batch_size = 2 * args.BATCH_SIZE[1]
        /\ trainer # Unset => trainer[1].args = training_args[1]

C6_Witness ==
    /\ pc = "done"
    /\ args.BATCH_SIZE[1] = MaxBatch
    /\ training_args[1].per_device_eval_batch_size = 2 * MaxBatch
    /\ args.WEIGHT_DECAY[1] # args.WARMUP_RATIO[1]

\* The checkpoint name the arguments of main() stand for.
ExpectedCheckpoint ==
    IF args.model_checkpoint[1] # None THEN args.model_checkpoint[1][1]
    ELSE robertaPrefix \o args.roberta[1]

SameButSplit(a, b) ==
    /\ a.DATASET = b.DATASET
    /\ a.speaker_mode = b.speaker_mode
    /\ a.num_past_utterances = b.num_past_utterances
    /\ a.num_future_utterances = b.num_future_utterances
    /\ a.model_checkpoint = b.model_checkpoint
    /\ a.ROOT_DIR = b.ROOT_DIR
    /\ a.SEED = b.SEED
    /\ a.SPLIT # b.SPLIT

\* C7: the three datasets, the tokenizer and the model all use one name: the
\* model_checkpoint main() was given when that is not None, else "roberta-"
\* followed by roberta; and the datasets differ in nothing but the split.
C7_OneCheckpoint ==
    /\ ds_train # Unset => ds_train[1].model_checkpoint = ExpectedCheckpoint
    /\ ds_val # Unset =>
           /\ ds_val[1].model_checkpoint = ExpectedCheckpoint
           /\ SameButSplit(ds_train[1], ds_val[1])
    /\ ds_test # Unset =>
           /\ ds_test[1].model_checkpoint = ExpectedCheckpoint
           /\ SameButSplit(ds_train[1], ds_test[1])
           /\ SameButSplit(ds_val[1], ds_test[1])
    /\ tokenizer # Unset => tokenizer[1].from_pretrained = ExpectedCheckpoint
    /\ model # Unset => model[1].from_pretrained = ExpectedCheckpoint

\* A completed run in which no checkpoint was configured.
C7_Witness ==
    /\ pc = "done"
    /\ args.model_checkpoint[1] = None
    /\ model[1].from_pretrained = robertaPrefix \o args.roberta[1]

\* Line 47 has run (it cannot fail, nor can line 54-55 after it).
Replaced == pc \in {"resolve_checkpoint", "training_args"} \/ training_args # Unset
Occurrences(s, old) == Cardinality({i \in 1..Len(s) : StartsWithAt(s, i, old)})
AnySeed == {None} \cup {Some(n) : n \in SeedValues \cup YamlSeeds}

\* C8: hp.json is only ever opened in the directory main() was given.  After
\* line 47 the output directory is that path with every "-seed-42" replaced
\* by "-seed-<SEED>" (so each occurrence changes the length by the length of
\* the formatted seed minus 2); the TrainingArguments and every file written
\* use it; it equals the given directory exactly when SEED is 42 or the path
\* holds no "-seed-42"; and in the latter case it is the same for every seed.
C8_SeedDirectory ==
    /\ \A i \in 1..Len(opened) :
           (opened[i][2] = "r" /\ opened[i][1] # yamlPath) => opened[i][1] = HpPath(GivenDir)
    /\ Replaced =>
           LET out == params[1].OUTPUT_DIR[1]
           IN  /\ out = SeedDir(GivenDir, GivenSeed)
               /\ Len(out) = Len(GivenDir)
                     + Occurrences(GivenDir, seed42) * (Len(FormatSeed(GivenSeed)) - 2)
               /\ out = GivenDir <=> (GivenSeed = Some(42) \/ ~Contains(GivenDir, seed42))
               /\ ~Contains(GivenDir, seed42) =>
                      \A other \in AnySeed : SeedDir(GivenDir, other) = out
               /\ training_args # Unset => training_args[1].output_dir = out
               /\ \A i \in 1..Len(opened) :
                      opened[i][2] = "w" => opened[i][1] \in ResultPaths(out)
               /\ Called("open_w", "val-results.json") => Opens(ValPath(out), "w") = 1
               /\ Called("open_w", "test-results.json") => Opens(TestPath(out), "w") = 1

\* A completed run whose results directory differs from the one hp.json was
\* read from.
C8_Witness ==
    /\ pc = "done"
    /\ Contains(GivenDir, seed42)
    /\ GivenSeed # Some(42)
    /\ params[1].OUTPUT_DIR[1] # GivenDir
    /\ Opens(HpPath(GivenDir), "r") = 1
    /\ TestPath(params[1].OUTPUT_DIR[1]) \in DOMAIN disk

\* The loop of lines 165-166 has run.
Merged == args_ # Unset /\ pc # "merge"

\* C9: after the merge every key the YAML file defines holds the YAML value
\* in args, and every other key holds what argparse returned (OUTPUT_DIR and
\* SEED, None when not given) or is missing; the run then uses the YAML
\* file's SEED and OUTPUT_DIR when it defines them.
C9_YamlOverrides ==
    /\ Merged =>
           \A k \in Keys :
               /\ yamlFile[k] # Absent => args[k] = yamlFile[k]
               /\ yamlFile[k] = Absent =>
                      args[k] = (IF k = "OUTPUT_DIR" THEN Given(argv.OUTPUT_DIR)
                                 ELSE IF k = "SEED" THEN Given(argv.SEED)
                                 ELSE Absent)
    /\ (training_args # Unset /\ yamlFile.SEED # Absent) =>
           training_args[1].seed = yamlFile.SEED[1]
    /\ (training_args # Unset /\ yamlFile.SEED = Absent) =>
           training_args[1].seed = argv.SEED
    /\ (Called("open_r", "hp.json") /\ yamlFile.OUTPUT_DIR # Absent) =>
           Opens(HpPath(yamlFile.OUTPUT_DIR[1][1]), "r") = 1
    /\ (Called("open_r", "hp.json") /\ yamlFile.OUTPUT_DIR = Absent) =>
           Opens(HpPath(argv.OUTPUT_DIR[1]), "r") = 1

\* A completed run whose YAML file and command line disagree on both keys.
C9_Witness ==
    /\ pc = "done"
    /\ yamlFile.SEED # Absent
    /\ argv.SEED # None
    /\ argv.SEED # yamlFile.SEED[1]
    /\ yamlFile.OUTPUT_DIR # Absent
    /\ argv.OUTPUT_DIR # None
    /\ argv.OUTPUT_DIR # yamlFile.OUTPUT_DIR[1]

\* hp.json in the given directory, as the script finds it.
HpMissing == HpPath(GivenDir) \notin DOMAIN disk0
HpInvalid == ~HpMissing /\ ~disk0[HpPath(GivenDir)].valid
HpNoKey ==
    /\ ~HpMissing
    /\ disk0[HpPath(GivenDir)].valid
    /\ ~disk0[HpPath(GivenDir)].isDict \/ disk0[HpPath(GivenDir)].learning_rate = Absent
NothingBuilt ==
    /\ built = <<Unset, Unset, Unset, Unset, Unset, Unset, Unset>>
    /\ results = <<Unset, Unset>>
    /\ LEARNING_RATE = Unset
    /\ disk = disk0
    /\ \A i \in 1..Len(calls) : calls[i].op \in {"open_r", "get_num_classes"}

\* C10: with hp.json missing, not JSON, or without "learning_rate", main()
\* never gets past reading it: nothing is built, trained or written, and the
\* run is aborted as soon as the open (missing, not JSON) or the lookup (no
\* key) has been tried.  An aborted run takes no further step, and a results
\* file is on disk only after the call that produced its metrics returned.
C10_AbortOnBadHp ==
    /\ (HasDir /\ (HpMissing \/ HpInvalid \/ HpNoKey)) =>
           /\ pc \in {"get_num_classes", "open_hp", "read_lr", "aborted"}
           /\ NothingBuilt
           /\ (Called("open_r", "hp.json") /\ ~HpNoKey) => pc = "aborted"
           /\ pc = "read_lr" => hp_best # Unset
    /\ pc = "aborted" => ~ENABLED Next
    /\ \A p \in (DOMAIN disk) \ (DOMAIN disk0) :
           /\ p = ValPath(params[1].OUTPUT_DIR[1]) =>
                  Called("evaluate", "val") /\ val_results # Unset
           /\ p = TestPath(params[1].OUTPUT_DIR[1]) =>
                  Called("predict", "test") /\ test_results # Unset

\* A run aborted by the lookup of a key hp.json does not have.
C10_Witness ==
    /\ pc = "aborted"
    /\ HasDir
    /\ HpNoKey
    /\ disk0[HpPath(GivenDir)].isDict
    /\ Called("open_r", "hp.json")
    /\ hp_best # Unset
====
